---- MODULE Spec2Model ----
(***************************************************************************)
(* State-machine model of package batchio (src/batchio/batchio.go):        *)
(*   - Reader: Next / Finish, the background read goroutine, the TAFB      *)
(*     timer and the caller's context;                                     *)
(*   - Writer: Write / Flush / flushLocked, the backgroundWrite goroutine, *)
(*     the AfterFunc timer and the mutex.                                  *)
(* Bytes are identified by their position in the stream (the i-th byte of  *)
(* the source, or of the caller's input, is the number i), so that loss,   *)
(* duplication and reordering are all visible.                             *)
(***************************************************************************)
EXTENDS Integers, Sequences, FiniteSets, TLC

\* ------------------------------------------------------------------ bounds
\* size given to NewReader (len(r.buf))
Size == 2
\* the source delivers at most this many bytes over its lifetime
MaxStream == 3
\* calls to Reader.Finish the caller makes at most
MaxFinish == 2

\* size given to NewWriter (cap(w.buf))
Cap == 3
\* bytes the caller gives to Writer.Write over its lifetime, at most
MaxInput == 6
\* sink writes that fail, at most
MaxSinkFails == 2

\* calls retry.Do makes to f, at most
MaxCalls == 3

\* calls of the cancel function KeepAlive returns, at most
MaxCancel == 2

\* attempts of the read goroutine before io.ErrNoProgress
NoProgressTries == 5

Min(a, b) == IF a < b THEN a ELSE b

\* the bytes lo+1 .. hi of the stream: byte i is the number i
Bytes(lo, hi) == [i \in 1..(hi - lo) |-> lo + i]

\* ------------------------------------------------------------------ Reader
VARIABLES
  r_r,            \* Reader.r is non-nil
  r_buf,          \* Reader.buf, a fixed array of Size bytes (0: never written)
  r_nread,        \* Reader.nread
  r_err,          \* Reader.err: "nil", "EOF", "ErrSrc", "ErrNoProgress"
  r_read,         \* Reader.read, chan int of capacity 1: the values queued
  r_pendingRead,  \* Reader.pendingRead
  r_pc,           \* the caller: "idle", "pend" (select at line 63),
                  \* "select" (select at line 93), "finish" (receive at 124)
  timeout,        \* Next's local timer channel: "nil", "armed", "fired"
  ctx,            \* the context of the running Next: "background", "live", "done"
  gor,            \* the running read goroutines: each its loop counter i
  srcPos,         \* bytes the source's Read calls have returned so far
  readCalls,      \* calls made to the source's Read, counted up to
                  \* NoProgressTries + 2
  closeCalls,     \* calls made to the source's Close
  nextCalls,      \* calls made to Reader.Next: 0, 1, or 2 for two and more
  finishCalls,    \* calls made to Reader.Finish
  r_ret,          \* what the last call returned: [op, via, batch, err]; via is
                  \* the return statement: "loop" (lines 108-111), "timeout" (99),
                  \* "cancel" (103, 105), "pendcancel" (68), "finish" (118, 122),
                  \* "finishPending" (127)
  out,            \* concatenation of every batch returned so far
  call,           \* the last Next call's entry: [ctx, err, pend, prevErr], the
                  \* context given, r.err and r.pendingRead as they were then, and
                  \* the error the Next before it returned
  nextErr,        \* the error the last Next returned ("none" before any)
  timedOut,       \* some Next has returned on its timer (line 99)
  zeroReads,      \* calls of the source's Read that returned (0, nil), counted
                  \* up to NoProgressTries + 1: equal to readCalls exactly when
                  \* every call so far returned (0, nil)
  closeErr,       \* what the source's last Close returned
  greedy          \* the source so far: "yes" (every Read filled the buffer offered),
                  \* "ended" (its data ran out: a short Read or EOF), "no" (neither)

rvars == <<r_r, r_buf, r_nread, r_err, r_read, r_pendingRead, r_pc, timeout, ctx,
           gor, srcPos, readCalls, closeCalls, nextCalls, finishCalls, r_ret, out,
           call, nextErr, timedOut, zeroReads, closeErr, greedy>>

\* ------------------------------------------------------------------ Writer
VARIABLES
  w_buf,          \* Writer.buf: the buffered bytes
  w_err,          \* Writer.err: "nil" or "ErrSink"
  w_flushChan,    \* Writer.flushChan: "nil", or a channel of capacity 1 that is
                  \* "empty" or "full"
  w_timer,        \* Writer.timer: "nil", "armed" or "fired"
  w_writeDone,    \* Writer.writeDone: "nil" or "open"
  w_mu,           \* Writer.mu: "free", or held by the "caller", by backgroundWrite
                  \* ("bg") or by the second caller ("other")
  bg,             \* the backgroundWrite goroutine: "none", "waitFlush" (line 234),
                  \* "waitLock" (line 238), "writing" (in the sink's Write, line 240)
  w_pc,           \* the caller: "idle", "writeFlush" (Write in flushLocked, line
                  \* 273), "writeLoop" (line 199), "flushWait" (Flush in flushLocked)
  done,           \* flushLocked's local done: "none", "open", "closed", "nilchan"
  w_p,            \* Write's p: the input not yet consumed
  w_n,            \* Write's n
  inPos,          \* bytes given to Write so far
  sink,           \* the slices passed to the sink's Write, in order
  sinkFails,      \* sink writes that returned an error
  w_call,         \* the last call: [op, len, afterFail, syncFailed, prev, pre, lw];
                  \* prev is the call before it and its error, pre the Writer's
                  \* fields and the sink as the call found them, lw the last Write
                  \* of at least one byte: its length, and the lengths of the
                  \* buffer and of the sink as it found them
  w_ret,          \* what the last call returned: [op, n, err]
  allErrNil,      \* every Write so far returned a nil error
  allFullN,       \* every Write so far returned n = len(p)
  bgStale,        \* backgroundWrite goroutines started before the one of bg and
                  \* still waiting at line 234 for a signal on their flush channel
  o_ret           \* the last Write of a second caller: [calls, n, err, during],
                  \* with its calls counted up to 2;
                  \* during tells that it ran between the start and the end of
                  \* a Write of the first caller

wvars == <<w_buf, w_err, w_flushChan, w_timer, w_writeDone, w_mu, bg, w_pc, done,
           w_p, w_n, inPos, sink, sinkFails, w_call, w_ret, allErrNil, allFullN,
           bgStale, o_ret>>

\* ------------------------------------------------------------------- retry
VARIABLES
  d_pc,           \* retry.Do: "start" (not called), "callf" (line 29), "wait" (the
                  \* select of line 42), "returned"
  d_ctx,          \* Do's ctx: "background", "live" or "done"
  d_t,            \* Do's timer t: "nil", "armed", "fired" or "drained"
  d_hist,         \* the calls made to f, in order: [res, backoff, ctxDone], what f
                  \* returned ("nil" or "err"), what strategy.Duration() returned
                  \* after it (0 or 1 for positive, -1 when not asked) and whether
                  \* ctx was Done when f returned
  d_ret           \* what Do returned: [err, call], with err "none" before it
                  \* returns, "nil", or "err" for the error of the call-th call to f

dvars == <<d_pc, d_ctx, d_t, d_hist, d_ret>>

\* ---------------------------------------------------------------- xcontext
VARIABLES
  p_kind,         \* the parent context: "none" (not made yet), "background" (Done()
                  \* is nil), "cancel" (context.WithCancel) or "deadline"
                  \* (context.WithDeadline)
  p_err,          \* parent.Err(): "nil", "Canceled" or "DeadlineExceeded"
  k_pc,           \* "start", "parent" (the parent exists), "called" (KeepAlive has
                  \* returned)
  k_path,         \* the return statement KeepAlive took: "none", "withCancel"
                  \* (line 41), "withDeadline" (line 47) or "keepAlive" (line 85)
  k_pAtCall,      \* parent.Err() when KeepAlive was called
  k_elapsed,      \* d has elapsed since the call (minDeadline is reached)
  k_timer,        \* the timer of line 54, or the one of context.WithDeadline:
                  \* "none", "armed", "fired", "drained" or "stopped"
  k_gor,          \* the goroutine of lines 67-84: "none", "outer" (select of line
                  \* 71), "inner" (select of line 74), "exiting" (after k.stop) or
                  \* "done" (cancelerDone is closed)
  k_canceled,     \* the channel canceled is closed
  k_done,         \* the returned context's Done channel is closed
  k_err,          \* the returned context's Err(): "nil", "Canceled" or
                  \* "DeadlineExceeded"
  k_closes,       \* how often the Done channel was closed, counted up to 2
  k_cancel,       \* the caller of the returned cancel function: "none", "waiting"
                  \* (line 88) or "returned"
  k_cancelCalls,  \* calls of the returned cancel function so far
  k_cret          \* about the latest call of cancel: [preDone], whether the
                  \* returned context was Done when it was called

kvars == <<p_kind, p_err, k_pc, k_path, k_pAtCall, k_elapsed, k_timer, k_gor,
           k_canceled, k_done, k_err, k_closes, k_cancel, k_cancelCalls, k_cret>>

\* ----------------------------------------------------------------- Batcher
VARIABLES
  b_r,            \* Batcher.r is non-nil
  b_nread,        \* Batcher.nread
  b_err,          \* Batcher.err: "nil", "EOF", "ErrSrc", "ErrNoProgress"
  b_read,         \* Batcher.read, chan int of capacity 1: the values queued
  b_pendingRead,  \* Batcher.pendingRead
  b_pc,           \* the caller: "idle", "pend" (select at line 208), "select"
                  \* (select at line 238), "finish" (receive at line 266)
  b_timeout,      \* Next's local timer channel: "nil", "armed", "fired"
  b_ctx,          \* the context of the running Next: "background", "live", "done"
  b_gor,          \* the running read goroutines: each its loop counter i
  b_srcPos,       \* bytes the source's Read calls have returned so far
  b_finishCalls,  \* calls made to Batcher.Finish
  b_ret           \* what the last call returned: [op, n, err], the length of
                  \* the batch and the error

bvars == <<b_r, b_nread, b_err, b_read, b_pendingRead, b_pc, b_timeout, b_ctx,
           b_gor, b_srcPos, b_finishCalls, b_ret>>

vars == <<rvars, wvars, dvars, kvars, bvars>>

\* NewReader: lines 45-50
InitReader ==
  /\ r_r = TRUE
  /\ r_buf = [i \in 1..Size |-> 0]
  /\ r_nread = 0
  /\ r_err = "nil"
  /\ r_read = <<>>
  /\ r_pendingRead = FALSE
  /\ r_pc = "idle"
  /\ timeout = "nil"
  /\ ctx = "background"
  /\ gor = <<>>
  /\ srcPos = 0
  /\ readCalls = 0
  /\ closeCalls = 0
  /\ nextCalls = 0
  /\ finishCalls = 0
  /\ r_ret = [op |-> "none", via |-> "none", batch |-> <<>>, err |-> "nil"]
  /\ out = <<>>
  /\ call = [ctx |-> "background", err |-> "nil", pend |-> FALSE, prevErr |-> "none"]
  /\ nextErr = "none"
  /\ timedOut = FALSE
  /\ zeroReads = 0
  /\ closeErr = "nil"
  /\ greedy = "yes"

\* NewWriter: lines 161-166
InitWriter ==
  /\ w_buf = <<>>
  /\ w_err = "nil"
  /\ w_flushChan = "nil"
  /\ w_timer = "nil"
  /\ w_writeDone = "nil"
  /\ w_mu = "free"
  /\ bg = "none"
  /\ w_pc = "idle"
  /\ done = "none"
  /\ w_p = <<>>
  /\ w_n = 0
  /\ inPos = 0
  /\ sink = <<>>
  /\ sinkFails = 0
  /\ w_call = [op |-> "none", len |-> 0, afterFail |-> FALSE, syncFailed |-> FALSE,
               prev |-> [op |-> "none", err |-> "nil"],
               pre |-> [fields |-> <<<<>>, "nil", "nil", "nil", "nil">>, sink |-> <<>>],
               lw |-> [len |-> 0, bufAt |-> 0, sinkAt |-> 0]]
  /\ w_ret = [op |-> "none", n |-> 0, err |-> "nil"]
  /\ allErrNil = TRUE
  /\ allFullN = TRUE
  /\ bgStale = 0
  /\ o_ret = [calls |-> 0, n |-> 0, err |-> "nil", during |-> FALSE]

\* before retry.Do is called
InitDo ==
  /\ d_pc = "start"
  /\ d_ctx = "background"
  /\ d_t = "nil"
  /\ d_hist = <<>>
  /\ d_ret = [err |-> "none", call |-> 0]

\* before KeepAlive is called
InitKeepAlive ==
  /\ p_kind = "none"
  /\ p_err = "nil"
  /\ k_pc = "start"
  /\ k_path = "none"
  /\ k_pAtCall = "nil"
  /\ k_elapsed = FALSE
  /\ k_timer = "none"
  /\ k_gor = "none"
  /\ k_canceled = FALSE
  /\ k_done = FALSE
  /\ k_err = "nil"
  /\ k_closes = 0
  /\ k_cancel = "none"
  /\ k_cancelCalls = 0
  /\ k_cret = [preDone |-> FALSE]

\* batcher.New: lines 183-196
InitBatcher ==
  /\ b_r = TRUE
  /\ b_nread = 0
  /\ b_err = "nil"
  /\ b_read = <<>>
  /\ b_pendingRead = FALSE
  /\ b_pc = "idle"
  /\ b_timeout = "nil"
  /\ b_ctx = "background"
  /\ b_gor = <<>>
  /\ b_srcPos = 0
  /\ b_finishCalls = 0
  /\ b_ret = [op |-> "none", n |-> 0, err |-> "nil"]

Init == InitReader /\ InitWriter /\ InitDo /\ InitKeepAlive /\ InitBatcher

\* r.buf[lo:hi] of a buffer b; a position outside the array reads as 0
Slice(b, lo, hi) == [i \in 1..(hi - lo) |-> IF lo + i \in DOMAIN b THEN b[lo + i] ELSE 0]

\* the slice handed to the source's Read, r.buf[r.nread:], as offset and length
ReadBufWhole(nr) == [off |-> 0, len |-> Size]
ReadBuf(nr) == [off |-> nr, len |-> Size - nr]

\* copy(r.buf, r.buf[r.nread:r.nread+n]): the buffer afterwards
CopyPendingNoShift(b, nr, n) == b
CopyPending(b, nr, n) ==
  [i \in DOMAIN b |-> IF i <= n /\ nr + i \in DOMAIN b THEN b[nr + i] ELSE b[i]]

\* the condition of Next's for loop, line 75
LoopCondNoErr(nr, e) == nr < Size
LoopCond(nr, e) == nr < Size /\ e = "nil"

\* the error Next returns when its context is Done in the select, lines 102-105
CancelErrNil(nr) == "nil"
CancelErr(nr) == IF nr = 0 THEN "ctxErr" ELSE "nil"

\* the goroutine's loop ends after its iteration i without a result, line 83
GiveUpLate(i) == i >= NoProgressTries
GiveUp(i) == i + 1 >= NoProgressTries

\* a timer is started at the head of the loop, line 76
ArmTimerAlways(tmo, nr) == tmo = "nil"
ArmTimer(tmo, nr) == tmo = "nil" /\ nr > 0

\* the batch returned when the timer fires, line 99: r.buf[:r.nread:r.nread]
TimeoutBatchWhole(b, nr) == Slice(b, 0, Size)
TimeoutBatch(b, nr) == Slice(b, 0, nr)

\* the case <-ctx.Done() of the selects of lines 63 and 93 can proceed, with the
\* call's context c
CtxReadyNever(c) == FALSE
CtxReady(c) == c = "done"

\* r.pendingRead after the context is Done in the select, line 101
CancelForgetsPending == FALSE
CancelMarksPending == TRUE

\* r.err after Next has returned on its context, lines 67-68 and 100-105: the
\* context's error is returned, not recorded
ErrAfterCancelSticky(e) == IF e = "nil" THEN "ctxErr" ELSE e
ErrAfterCancel(e) == e

\* the batch Finish returns after a read of n bytes, line 127: r.buf[nread:nread+n]
FinishBatchFromStart(b, nr, n) == Slice(b, 0, n)
FinishBatch(b, nr, n) == Slice(b, nr, nr + n)

\* how the source has behaved once a Read offered len bytes has returned (n, e),
\* after behaving as g: a source with all its data at hand fills every buffer
\* until the data runs out, and reports EOF with the last bytes or after them
GreedyNext(g, len, n, e) ==
  IF g = "no" \/ e = "ErrSrc" THEN "no"
  ELSE IF g = "ended" THEN (IF n = 0 /\ e = "EOF" THEN "ended" ELSE "no")
  ELSE IF e = "EOF" THEN "ended"
  ELSE IF n = len THEN "yes"
  ELSE IF n > 0 THEN "ended" ELSE "no"

\* a call returns through the return statement via: the caller is idle again,
\* Next's deferred timer.Stop has run
Return(op, via, batch, e) ==
  /\ r_ret' = [op |-> op, via |-> via, batch |-> batch, err |-> e]
  /\ nextErr' = IF op = "Next" THEN e ELSE nextErr
  /\ out' = out \o batch
  /\ r_pc' = "idle"
  /\ timeout' = "nil"
  /\ ctx' = "background"

\* the for loop of Next from its condition (line 75) to the select (line 93), or
\* to the return after the loop (lines 108-111), with nread = nr, buffer b and
\* the call's context c
LoopTop(b, nr, c) ==
  /\ r_buf' = b
  /\ r_nread' = nr
  /\ IF LoopCond(nr, r_err)
     THEN /\ timeout' = IF ArmTimer(timeout, nr) THEN "armed" ELSE timeout
          /\ gor' = Append(gor, 0)
          /\ r_pc' = "select"
          /\ ctx' = c
          /\ UNCHANGED <<r_ret, out, nextErr>>
     ELSE /\ Return("Next", "loop", IF nr = 0 THEN <<>> ELSE Slice(b, 0, nr),
                    IF nr = 0 THEN r_err ELSE "nil")
          /\ UNCHANGED gor

\* Next, lines 60-72: entry, up to the first point where it blocks
NextCall(c) ==
  /\ r_pc = "idle"
  /\ finishCalls = 0
  /\ nextCalls' = Min(nextCalls + 1, 2)
  /\ call' = [ctx |-> c, err |-> r_err, pend |-> r_pendingRead, prevErr |-> nextErr]
  /\ IF r_pendingRead
     THEN /\ r_pc' = "pend"
          /\ ctx' = c
          /\ UNCHANGED <<r_buf, r_nread, timeout, gor, r_ret, out, nextErr>>
     ELSE LoopTop(r_buf, 0, c)
  /\ UNCHANGED <<r_r, r_err, r_read, r_pendingRead, srcPos, readCalls, closeCalls,
                 finishCalls, timedOut, zeroReads, closeErr>>
  /\ UNCHANGED <<greedy, wvars, dvars, kvars, bvars>>

\* lines 64-66: the leftover read's result arrives
NextPendRecv ==
  /\ r_pc = "pend"
  /\ r_read # <<>>
  /\ r_read' = Tail(r_read)
  /\ r_pendingRead' = FALSE
  /\ LoopTop(CopyPending(r_buf, r_nread, Head(r_read)), Head(r_read), ctx)
  /\ UNCHANGED <<r_r, r_err, srcPos, readCalls, closeCalls, nextCalls, finishCalls,
                 call, timedOut, zeroReads, closeErr>>
  /\ UNCHANGED <<greedy, wvars, dvars, kvars, bvars>>

\* lines 67-68
NextPendCancel ==
  /\ r_pc = "pend"
  /\ CtxReady(ctx)
  /\ r_err' = ErrAfterCancel(r_err)
  /\ Return("Next", "pendcancel", <<>>, "ctxErr")
  /\ UNCHANGED <<r_r, r_buf, r_nread, r_read, r_pendingRead, gor, srcPos,
                 readCalls, closeCalls, nextCalls, finishCalls, call, timedOut,
                 zeroReads, closeErr>>
  /\ UNCHANGED <<greedy, wvars, dvars, kvars, bvars>>

\* lines 94-95
NextSelRecv ==
  /\ r_pc = "select"
  /\ r_read # <<>>
  /\ r_read' = Tail(r_read)
  /\ LoopTop(r_buf, r_nread + Head(r_read), ctx)
  /\ UNCHANGED <<r_r, r_err, r_pendingRead, srcPos, readCalls, closeCalls, nextCalls,
                 finishCalls, call, timedOut, zeroReads, closeErr>>
  /\ UNCHANGED <<greedy, wvars, dvars, kvars, bvars>>

\* lines 96-99
NextSelTimeout ==
  /\ r_pc = "select"
  /\ timeout = "fired"
  /\ r_pendingRead' = TRUE
  /\ timedOut' = TRUE
  /\ Return("Next", "timeout", TimeoutBatch(r_buf, r_nread), "nil")
  /\ UNCHANGED <<r_r, r_buf, r_nread, r_err, r_read, gor, srcPos, readCalls,
                 closeCalls, nextCalls, finishCalls, call, zeroReads, closeErr>>
  /\ UNCHANGED <<greedy, wvars, dvars, kvars, bvars>>

\* lines 100-105
NextSelCancel ==
  /\ r_pc = "select"
  /\ CtxReady(ctx)
  /\ r_pendingRead' = CancelMarksPending
  /\ r_err' = ErrAfterCancel(r_err)
  /\ Return("Next", "cancel", Slice(r_buf, 0, r_nread), CancelErr(r_nread))
  /\ UNCHANGED <<r_r, r_buf, r_nread, r_read, gor, srcPos, readCalls,
                 closeCalls, nextCalls, finishCalls, call, timedOut, zeroReads,
                 closeErr>>
  /\ UNCHANGED <<greedy, wvars, dvars, kvars, bvars>>

\* the timer of line 77 expires
TimerFire ==
  /\ timeout = "armed"
  /\ timeout' = "fired"
  /\ UNCHANGED <<r_r, r_buf, r_nread, r_err, r_read, r_pendingRead, r_pc, ctx, gor,
                 srcPos, readCalls, closeCalls, nextCalls, finishCalls, r_ret, out,
                 call, nextErr, timedOut, zeroReads, closeErr>>
  /\ UNCHANGED <<greedy, wvars, dvars, kvars, bvars>>

\* the context given to the running Next becomes Done
CtxCancel ==
  /\ ctx = "live"
  /\ ctx' = "done"
  /\ UNCHANGED <<r_r, r_buf, r_nread, r_err, r_read, r_pendingRead, r_pc, timeout,
                 gor, srcPos, readCalls, closeCalls, nextCalls, finishCalls, r_ret,
                 out, call, nextErr, timedOut, zeroReads, closeErr>>
  /\ UNCHANGED <<greedy, wvars, dvars, kvars, bvars>>

\* the goroutines other than the k-th
Others(k) == SubSeq(gor, 1, k - 1) \o SubSeq(gor, k + 1, Len(gor))

\* one iteration of the goroutine's loop, lines 83-91: goroutine k calls the
\* source's Read on r.buf[r.nread:], which returns (n, e) after storing the next n
\* bytes of the stream; a result is sent on r.read
GoRead(k, n, e) ==
  /\ k \in DOMAIN gor
  /\ n \in 0..Min(ReadBuf(r_nread).len, MaxStream - srcPos)
  /\ readCalls' = Min(readCalls + 1, NoProgressTries + 2)
  /\ zeroReads' = IF n = 0 /\ e = "nil"
                  THEN Min(zeroReads + 1, NoProgressTries + 1) ELSE zeroReads
  /\ greedy' = GreedyNext(greedy, ReadBuf(r_nread).len, n, e)
  /\ srcPos' = srcPos + n
  /\ r_buf' = [i \in DOMAIN r_buf |->
                 IF ReadBuf(r_nread).off < i /\ i <= ReadBuf(r_nread).off + n
                 THEN srcPos + (i - ReadBuf(r_nread).off) ELSE r_buf[i]]
  /\ IF n > 0 \/ e # "nil"
     THEN /\ Len(r_read) < 1
          /\ r_err' = e
          /\ r_read' = Append(r_read, n)
          /\ gor' = Others(k)
     ELSE IF ~GiveUp(gor[k])
          THEN /\ r_err' = e
               /\ gor' = [gor EXCEPT ![k] = gor[k] + 1]
               /\ UNCHANGED r_read
          ELSE /\ Len(r_read) < 1
               /\ r_err' = "ErrNoProgress"
               /\ r_read' = Append(r_read, 0)
               /\ gor' = Others(k)
  /\ UNCHANGED <<r_r, r_nread, r_pendingRead, r_pc, timeout, ctx, closeCalls,
                 nextCalls, finishCalls, r_ret, out, call, nextErr, timedOut,
                 closeErr>>
  /\ UNCHANGED <<wvars, dvars, kvars, bvars>>

\* Finish, lines 116-123: closing the source returns cerr
FinishCall(cerr) ==
  /\ r_pc = "idle"
  /\ finishCalls < MaxFinish
  /\ finishCalls' = finishCalls + 1
  /\ IF ~r_r
     THEN /\ Return("Finish", "finish", <<>>, "ErrFinishTwice")
          /\ UNCHANGED <<closeCalls, closeErr>>
     ELSE /\ closeCalls' = closeCalls + 1
          /\ closeErr' = cerr
          /\ IF ~r_pendingRead
             THEN Return("Finish", "finish", <<>>, cerr)
             ELSE /\ r_pc' = "finish"
                  /\ UNCHANGED <<r_ret, out, timeout, ctx, nextErr>>
  /\ UNCHANGED <<r_r, r_buf, r_nread, r_err, r_read, r_pendingRead, gor, srcPos,
                 readCalls, nextCalls, call, timedOut, zeroReads>>
  /\ UNCHANGED <<greedy, wvars, dvars, kvars, bvars>>

\* lines 124-127
FinishRecv ==
  /\ r_pc = "finish"
  /\ r_read # <<>>
  /\ r_read' = Tail(r_read)
  /\ r_pendingRead' = FALSE
  /\ r_r' = FALSE
  /\ Return("Finish", "finishPending", FinishBatch(r_buf, r_nread, Head(r_read)),
            closeErr)
  /\ UNCHANGED <<r_buf, r_nread, r_err, gor, srcPos, readCalls, closeCalls,
                 nextCalls, finishCalls, call, timedOut, zeroReads, closeErr>>
  /\ UNCHANGED <<greedy, wvars, dvars, kvars, bvars>>

NextReader ==
  \/ \E c \in {"background", "live", "done"} : NextCall(c)
  \/ NextPendRecv
  \/ NextPendCancel
  \/ NextSelRecv
  \/ NextSelTimeout
  \/ NextSelCancel
  \/ TimerFire
  \/ CtxCancel
  \/ \E k \in 1..Len(gor), n \in 0..Size, e \in {"nil", "EOF", "ErrSrc"} : GoRead(k, n, e)
  \/ \E cerr \in {"nil", "ErrClose"} : FinishCall(cerr)
  \/ FinishRecv

SpecReader == Init /\ [][NextReader]_vars

\* the same, with the progress the runtime gives: a goroutine that can take its
\* next step takes it (the source's Read returns, as Close unblocks it), and a
\* Finish whose result is in r.read receives it
GoStep == \E k \in 1..Len(gor), n \in 0..Size, e \in {"nil", "EOF", "ErrSrc"} : GoRead(k, n, e)
SpecReaderLive == SpecReader /\ WF_vars(GoStep) /\ WF_vars(FinishRecv)

\* the same as SpecReader, with the progress a select gives: Next, waiting in a
\* select of which a case can proceed, proceeds with one of them; the source's
\* Read may never return
SelectStep ==
  \/ NextPendRecv
  \/ NextPendCancel
  \/ NextSelRecv
  \/ NextSelTimeout
  \/ NextSelCancel
SpecReaderSelect == SpecReader /\ WF_vars(SelectStep)

\* ----------------------------------------------------------- Reader claims

\* C1: when the caller has called Next until it returned the source's EOF and then
\* Finish once, the concatenation of all returned batches is exactly the byte
\* sequence the source delivered, in order: no byte lost, duplicated or reordered.
C1_ReaderRoundTrip ==
  (r_pc = "idle" /\ finishCalls = 1 /\ nextErr = "EOF") => out = Bytes(0, srcPos)

C1_Witness ==
  /\ r_pc = "idle" /\ finishCalls = 1 /\ nextErr = "EOF"
  /\ timedOut /\ srcPos = MaxStream /\ out = Bytes(0, MaxStream)

\* C3: every batch Next returns with a nil error, and the batch Finish returns, is
\* at most Size bytes long.
C3_ReaderSizeBound ==
  (r_ret.op = "Finish" \/ (r_ret.op = "Next" /\ r_ret.err = "nil"))
    => Len(r_ret.batch) <= Size

\* a full batch that starts with the bytes of a read that was pending
C3_Witness ==
  /\ r_ret.op = "Next" /\ r_ret.err = "nil" /\ call.pend
  /\ Len(r_ret.batch) = Size /\ r_ret.batch = Bytes(1, 1 + Size)

\* C5: Next returns either a non-empty batch and a nil error, or no batch and a
\* non-nil error.
C5_BatchXorError ==
  r_ret.op = "Next" =>
    \/ r_ret.batch # <<>> /\ r_ret.err = "nil"
    \/ r_ret.batch = <<>> /\ r_ret.err # "nil"

\* Next returned on cancellation with nothing accumulated while the read's result
\* was already in the channel
C5_Witness ==
  /\ r_pc = "idle" /\ r_ret.op = "Next" /\ r_ret.err = "ctxErr"
  /\ r_pendingRead /\ r_read # <<>> /\ ~call.pend

C9_NoProgress ==
  (r_pc = "idle" /\ nextCalls = 1 /\ call.ctx = "background" /\ zeroReads = readCalls)
    => /\ readCalls = NoProgressTries
       /\ nextErr = "ErrNoProgress"
       /\ r_ret.batch = <<>>
       /\ (finishCalls = 1 /\ closeErr = "nil") => r_ret.err = "nil"

C9_Witness ==
  /\ r_pc = "idle" /\ nextCalls = 1 /\ call.ctx = "background"
  /\ zeroReads = readCalls /\ readCalls = NoProgressTries
  /\ finishCalls = 1
  /\ r_ret = [op |-> "Finish", via |-> "finish", batch |-> <<>>, err |-> "nil"]

\* C10 as stated: a second call of Finish returns the misuse error, whether or not
\* a read was pending at the first.
C10_SecondFinishFails ==
  (r_pc = "idle" /\ finishCalls >= 2) => r_ret.err = "ErrFinishTwice"

\* the byte count waiting in r.read, sent at line 86 or 91 and not yet received
Queued == IF r_read # <<>> THEN Head(r_read) ELSE 0

\* the batch of the last return is the tail of the output and continues the stream
BatchInOrder == r_ret.batch = Bytes(Len(out) - Len(r_ret.batch), Len(out))

\* C11: when the timer fires with at least one byte in the batch and the
\* background read outstanding, Next returns exactly the bytes received so far,
\* in stream order and with a nil error, leaves the read pending with its result
\* still to come, and a later Next that starts from the pending read returns a
\* batch that continues the stream with that read's bytes.
C11_LatencyRule ==
  /\ (r_pc = "idle" /\ r_ret.via = "timeout") =>
       /\ r_ret.err = "nil" /\ r_ret.batch # <<>>
       /\ r_pendingRead
       /\ r_read # <<>> \/ gor # <<>>
       /\ BatchInOrder
       /\ out = Bytes(0, srcPos - Queued)
  /\ (r_pc = "idle" /\ r_ret.op = "Next" /\ call.pend /\ r_ret.err = "nil") =>
       /\ r_ret.batch # <<>>
       /\ BatchInOrder
       /\ out = Bytes(0, srcPos - Queued)

\* the source delivered fewer bytes than the size and then blocked: the timeout
\* returned them while the next read is still running
C11_Witness ==
  /\ r_pc = "idle" /\ r_ret.via = "timeout"
  /\ Len(r_ret.batch) < Size
  /\ gor # <<>> /\ r_read = <<>>

\* C12: with a source that fills every buffer it is offered until its data runs
\* out, every batch Next returns starts at a multiple of the size and is size
\* bytes long, except the last one, which is the remainder; EOF is returned only
\* after all the bytes; timer expiries and cancellations do not change this.
C12_SizeDrivenBatches ==
  (r_pc = "idle" /\ r_ret.op = "Next" /\ greedy # "no") =>
    IF r_ret.err = "nil"
    THEN /\ BatchInOrder
         /\ (Len(out) - Len(r_ret.batch)) % Size = 0
         /\ \/ Len(r_ret.batch) = Size
            \/ greedy = "ended" /\ Len(r_ret.batch) > 0 /\ Len(out) = srcPos
    ELSE r_ret.err = "EOF" => (greedy = "ended" /\ out = Bytes(0, srcPos))

\* a stream longer than the size has been returned in full, then EOF
C12_Witness ==
  /\ r_pc = "idle" /\ r_ret.op = "Next" /\ r_ret.err = "EOF"
  /\ greedy = "ended"
  /\ srcPos = MaxStream /\ out = Bytes(0, MaxStream)

\* C14: when Next returns because its context is Done during the select, the
\* read is left pending; with at least one byte received the bytes received so
\* far are returned, in stream order, with a nil error, and with none the
\* context's error is returned with no batch.
C14_Cancellation ==
  (r_pc = "idle" /\ r_ret.via = "cancel") =>
    /\ r_pendingRead
    /\ Len(r_ret.batch) = r_nread
    /\ IF r_nread > 0
       THEN r_ret.err = "nil" /\ BatchInOrder
       ELSE r_ret.err = "ctxErr"
    /\ out = Bytes(0, srcPos - Queued)

\* cancelled with bytes in the batch while the read is still running
C14_Witness ==
  /\ r_pc = "idle" /\ r_ret.via = "cancel"
  /\ r_ret.batch # <<>> /\ r_ret.err = "nil"
  /\ gor # <<>>

\* C15: a Next given a context that is never Done does not return the
\* context's error; called after a Next that returned it, it returns a
\* non-empty batch that continues the stream, or the error of the source.
C15_CancelNotSticky ==
  (r_pc = "idle" /\ r_ret.op = "Next" /\ call.ctx = "background") =>
    /\ r_ret.err # "ctxErr"
    /\ call.prevErr = "ctxErr" =>
         IF r_ret.err = "nil"
         THEN r_ret.batch # <<>> /\ BatchInOrder /\ out = Bytes(0, srcPos - Queued)
         ELSE r_ret.batch = <<>> /\ r_ret.err = r_err

C15_Witness ==
  /\ r_pc = "idle" /\ r_ret.op = "Next" /\ call.ctx = "background"
  /\ call.prevErr = "ctxErr" /\ call.pend
  /\ r_ret.err = "nil" /\ r_ret.batch # <<>>

\* C16: the first Finish closes the source once and returns Close's error; with
\* a read pending it returns exactly the bytes of that read, the last of the
\* stream, and with none pending no bytes; afterwards no read is outstanding.
\* While Finish waits, the result is in r.read or the goroutine that will send
\* it is running, and, the source's Read returning, Finish returns.
C16_Finish ==
  /\ []((r_pc = "idle" /\ finishCalls = 1) =>
          /\ r_ret.op = "Finish" /\ closeCalls = 1 /\ r_ret.err = closeErr
          /\ gor = <<>> /\ r_read = <<>>
          /\ IF r_ret.via = "finishPending"
             THEN /\ ~r_pendingRead
                  /\ r_ret.batch = Bytes(srcPos - Len(r_ret.batch), srcPos)
                  /\ BatchInOrder
             ELSE r_ret.via = "finish" /\ r_ret.batch = <<>>)
  /\ [](r_pc = "finish" => (closeCalls = 1 /\ (r_read # <<>> \/ gor # <<>>)))
  /\ (r_pc = "finish") ~> (r_pc = "idle")

\* Finish waited for the pending read and returned its bytes with Close's error
C16_Witness ==
  /\ r_pc = "idle" /\ finishCalls = 1 /\ r_ret.via = "finishPending"
  /\ r_ret.batch # <<>> /\ r_ret.err = "ErrClose"

\* C17: once the caller has called Next until an error and then Finish, the
\* batches of Next and Finish concatenate to exactly the bytes the source's
\* Read calls returned.
C17_NoBytesLost ==
  (r_pc = "idle" /\ finishCalls >= 1 /\ nextErr \notin {"none", "nil"}) =>
    out = Bytes(0, srcPos)

\* Next was cancelled with a read outstanding, and Finish returned its bytes
C17_Witness ==
  /\ r_pc = "idle" /\ finishCalls = 1 /\ nextErr = "ctxErr"
  /\ r_ret.via = "finishPending" /\ r_ret.batch # <<>>
  /\ timedOut

\* ------------------------------------------------------- Writer operations

\* the elements after the first k of a sequence: p[k:]
Drop(p, k) == SubSeq(p, k + 1, Len(p))

\* the concatenation of a sequence of slices
RECURSIVE Flatten(_)
Flatten(ss) == IF ss = <<>> THEN <<>> ELSE Head(ss) \o Flatten(Tail(ss))

\* copy(w.buf[len(w.buf):cap(w.buf)], p), line 184: the bytes copied, given the
\* length bl of the buffer and pl of p
TopUpAll(bl, pl) == pl
TopUpCount(bl, pl) == Min(Cap - bl, pl)

\* Write's named result err, tested at line 203: nothing assigns it before
WriteErrResult == "nil"

\* what the sink's Write may return for a slice of l bytes: (l, nil), or fewer
\* bytes with an error
SinkResults(l) ==
  {[n |-> l, err |-> "nil"]} \cup
  (IF sinkFails < MaxSinkFails THEN {[n |-> k, err |-> "ErrSink"] : k \in 0..(l - 1)} ELSE {})

\* the fields of the Writer under its mutex, lines 141-145
WriterFields == <<w_buf, w_err, w_flushChan, w_timer, w_writeDone>>

\* what a call finds when it is made: the call before it with the error it
\* returned, the Writer's fields and the slices the sink has been passed
Entry(op, l) ==
  [op |-> op, len |-> l, afterFail |-> sinkFails > 0, syncFailed |-> FALSE,
   prev |-> [op |-> w_ret.op, err |-> w_ret.err],
   pre |-> [fields |-> WriterFields, sink |-> sink],
   lw |-> IF op = "Write" /\ l > 0
          THEN [len |-> l, bufAt |-> Len(w_buf), sinkAt |-> Len(sink)]
          ELSE w_call.lw]

\* the test of line 178 with w.err = e: Write returns at line 179
ErrRecordedNever(e) == FALSE
ErrRecorded(e) == e # "nil"

\* close(w.writeDone), line 248, as flushLocked's local done (d) shows it
CloseDoneNever(d) == d
CloseDone(d) == IF d = "open" THEN "closed" ELSE d

\* w.mu.Lock() can return, lines 176, 238, 254 and 274, with the mutex as m
MuFreeAlways(m) == TRUE
MuFree(m) == m = "free"

\* the condition of Write's for loop, line 199
SyncLoopCondStrict(p) == Len(p) > Cap
SyncLoopCond(p) == Len(p) >= Cap

\* the AfterFunc's non-blocking send on the flush channel ch, lines 219-223
TimerSignalDropped(ch) == ch
TimerSignal(ch) == IF ch = "empty" THEN "full" ELSE ch

\* w.err once Flush has returned it, line 259: read, not reset
ErrAfterFlushReset(e) == "nil"
ErrAfterFlush(e) == e

\* the call c returns (n, e): the deferred w.mu.Unlock has run
WReturn(c, n, e) ==
  /\ w_ret' = [op |-> c.op, n |-> n, err |-> e]
  /\ allErrNil' = (allErrNil /\ (c.op = "Write" => e = "nil"))
  /\ allFullN' = (allFullN /\ (c.op = "Write" => n = c.len))
  /\ w_pc' = "idle"
  /\ w_mu' = IF w_mu = "caller" THEN "free" ELSE w_mu
  /\ done' = "none"
  /\ w_p' = <<>>
  /\ w_n' = 0

\* flushLocked, lines 265-273, up to the receive from done
FlushLocked(pc) ==
  /\ w_flushChan' = IF w_flushChan = "empty" THEN "full" ELSE w_flushChan
  /\ done' = IF w_writeDone = "open" THEN "open" ELSE "nilchan"
  /\ w_mu' = "free"
  /\ w_pc' = pc

\* lines 216-226: a flush channel, a timer and a completion channel are made
\* and stored, and backgroundWrite is started; a goroutine started earlier that
\* has not been signalled keeps waiting on its own channel
StartNothing == UNCHANGED <<w_flushChan, w_timer, w_writeDone, bg, bgStale>>
StartBackground ==
  /\ w_flushChan' = "empty"
  /\ w_timer' = "armed"
  /\ w_writeDone' = "open"
  /\ bg' = "waitFlush"
  /\ bgStale' = IF bg # "none" THEN bgStale + 1 ELSE bgStale

\* the Write call c from the condition of its for loop (line 199) on, with
\* buffer b, input p left and n bytes counted: to the next sink write, or through lines 210-227
SyncTop(c, b, p, n) ==
  IF SyncLoopCond(p)
  THEN /\ w_pc' = "writeLoop"
       /\ w_mu' = "caller"
       /\ w_p' = p
       /\ w_n' = n
       /\ w_buf' = b
       /\ done' = "none"
       /\ UNCHANGED <<w_flushChan, w_timer, w_writeDone, bg, bgStale, w_ret,
                      allErrNil, allFullN>>
  ELSE /\ w_buf' = b \o p
       /\ WReturn(c, n + Len(p), "nil")
       /\ IF Len(b \o p) = 0
          THEN UNCHANGED <<w_flushChan, w_timer, w_writeDone, bg, bgStale>>
          ELSE StartBackground

\* Write, lines 172-195: p is the next l bytes of the caller's input
WriteCall(l) ==
  /\ w_pc = "idle"
  /\ inPos + l <= MaxInput
  /\ inPos' = inPos + l
  /\ w_call' = Entry("Write", l)
  /\ IF l = 0
     THEN /\ WReturn(w_call', 0, "nil")
          /\ UNCHANGED <<w_buf, w_flushChan, w_timer, w_writeDone, bg, bgStale>>
     ELSE /\ MuFree(w_mu)
          /\ IF ErrRecorded(w_err)
             THEN /\ WReturn(w_call', 0, w_err)
                  /\ UNCHANGED <<w_buf, w_flushChan, w_timer, w_writeDone, bg,
                                 bgStale>>
             ELSE IF Len(w_buf) > 0
             THEN LET n == TopUpCount(Len(w_buf), l)
                      p == Bytes(inPos, inPos + l)
                      b == w_buf \o SubSeq(p, 1, n)
                  IN  IF Len(b) < Cap
                      THEN /\ w_buf' = b
                           /\ WReturn(w_call', n, "nil")
                           /\ UNCHANGED <<w_flushChan, w_timer, w_writeDone, bg,
                                          bgStale>>
                      ELSE /\ w_buf' = b
                           /\ w_p' = Drop(p, n)
                           /\ w_n' = n
                           /\ FlushLocked("writeFlush")
                           /\ UNCHANGED <<w_timer, w_writeDone, bg, bgStale, w_ret,
                                          allErrNil, allFullN>>
             ELSE SyncTop(w_call', w_buf, Bytes(inPos, inPos + l), 0)
  /\ UNCHANGED <<w_err, sink, sinkFails, o_ret>>
  /\ UNCHANGED <<rvars, dvars, kvars, bvars>>

\* lines 273-274 and 192-195: the flush Write waited for is done
WriteFlushDone ==
  /\ w_pc = "writeFlush"
  /\ done = "closed"
  /\ MuFree(w_mu)
  /\ IF w_err # "nil"
     THEN /\ WReturn(w_call, w_n, w_err)
          /\ UNCHANGED <<w_buf, w_flushChan, w_timer, w_writeDone, bg, bgStale>>
     ELSE SyncTop(w_call, w_buf, w_p, w_n)
  /\ UNCHANGED <<w_err, inPos, sink, sinkFails, w_call, o_ret>>
  /\ UNCHANGED <<rvars, dvars, kvars, bvars>>

\* one iteration of the for loop, lines 199-208: the sink's Write returns res
WriteSync(res) ==
  /\ w_pc = "writeLoop"
  /\ res \in SinkResults(Cap)
  /\ sink' = Append(sink, SubSeq(w_p, 1, Cap))
  /\ sinkFails' = IF res.err # "nil" THEN sinkFails + 1 ELSE sinkFails
  /\ w_call' = [w_call EXCEPT !.syncFailed = @ \/ res.err # "nil"]
  /\ IF WriteErrResult # "nil"
     THEN /\ w_err' = WriteErrResult
          /\ WReturn(w_call', w_n + res.n, WriteErrResult)
          /\ UNCHANGED <<w_buf, w_flushChan, w_timer, w_writeDone, bg, bgStale>>
     ELSE /\ w_err' = res.err
          /\ SyncTop(w_call', w_buf, Drop(w_p, res.n), w_n + res.n)
  /\ UNCHANGED <<inPos, o_ret>>
  /\ UNCHANGED <<rvars, dvars, kvars, bvars>>

\* the for loop of the Flush call c, lines 256-259
FlushTop(c) ==
  IF Len(w_buf) > 0
  THEN /\ FlushLocked("flushWait")
       /\ UNCHANGED <<w_err, w_ret, allErrNil, allFullN, w_p, w_n>>
  ELSE /\ WReturn(c, 0, w_err)
       /\ w_err' = ErrAfterFlush(w_err)
       /\ UNCHANGED w_flushChan

\* Flush, lines 253-259
FlushCall ==
  /\ w_pc = "idle"
  /\ MuFree(w_mu)
  /\ w_call' = Entry("Flush", 0)
  /\ FlushTop(w_call')
  /\ UNCHANGED <<w_buf, w_timer, w_writeDone, bg, inPos, sink, sinkFails, bgStale,
                 o_ret>>
  /\ UNCHANGED <<rvars, dvars, kvars, bvars>>

\* lines 273-274 and 256: the flush Flush waited for is done
FlushDone ==
  /\ w_pc = "flushWait"
  /\ done = "closed"
  /\ MuFree(w_mu)
  /\ FlushTop(w_call)
  /\ UNCHANGED <<w_buf, w_timer, w_writeDone, bg, inPos, sink, sinkFails, w_call,
                 bgStale, o_ret>>
  /\ UNCHANGED <<rvars, dvars, kvars, bvars>>

\* the AfterFunc of lines 218-224 runs
AfterFuncFire ==
  /\ w_timer = "armed"
  /\ w_timer' = "fired"
  /\ w_flushChan' = TimerSignal(w_flushChan)
  /\ UNCHANGED <<w_buf, w_err, w_writeDone, w_mu, bg, w_pc, done, w_p, w_n, inPos,
                 sink, sinkFails, w_call, w_ret, allErrNil, allFullN, bgStale, o_ret>>
  /\ UNCHANGED <<rvars, dvars, kvars, bvars>>

\* backgroundWrite, line 234: the flush signal arrives
BgWake ==
  /\ bg = "waitFlush"
  /\ w_flushChan = "full"
  /\ w_flushChan' = "empty"
  /\ bg' = "waitLock"
  /\ UNCHANGED <<w_buf, w_err, w_timer, w_writeDone, w_mu, w_pc, done, w_p, w_n,
                 inPos, sink, sinkFails, w_call, w_ret, allErrNil, allFullN, bgStale,
                 o_ret>>
  /\ UNCHANGED <<rvars, dvars, kvars, bvars>>

\* backgroundWrite, lines 238-240: the mutex is taken and the sink's Write called
BgLock ==
  /\ bg = "waitLock"
  /\ MuFree(w_mu)
  /\ w_mu' = "bg"
  /\ bg' = "writing"
  /\ UNCHANGED <<w_buf, w_err, w_flushChan, w_timer, w_writeDone, w_pc, done, w_p,
                 w_n, inPos, sink, sinkFails, w_call, w_ret, allErrNil, allFullN,
                 bgStale, o_ret>>
  /\ UNCHANGED <<rvars, dvars, kvars, bvars>>

\* backgroundWrite, lines 240-249: the sink's Write returns res, the fields are
\* reset, and the deferred w.mu.Unlock runs
BgWrite(res) ==
  /\ bg = "writing"
  /\ w_mu' = "free"
  /\ res \in SinkResults(Len(w_buf))
  /\ sink' = Append(sink, w_buf)
  /\ sinkFails' = IF res.err # "nil" THEN sinkFails + 1 ELSE sinkFails
  /\ w_err' = res.err
  /\ w_buf' = <<>>
  /\ w_flushChan' = "nil"
  /\ w_timer' = "nil"
  /\ done' = CloseDone(done)
  /\ w_writeDone' = "nil"
  /\ bg' = "none"
  /\ UNCHANGED <<w_pc, w_p, w_n, inPos, w_call, w_ret, allErrNil, allFullN,
                 bgStale, o_ret>>
  /\ UNCHANGED <<rvars, dvars, kvars, bvars>>

NextWriter ==
  \/ \E l \in 0..MaxInput : WriteCall(l)
  \/ WriteFlushDone
  \/ \E n \in 0..Cap, e \in {"nil", "ErrSink"} : WriteSync([n |-> n, err |-> e])
  \/ FlushCall
  \/ FlushDone
  \/ AfterFuncFire
  \/ BgWake
  \/ BgLock
  \/ \E n \in 0..MaxInput, e \in {"nil", "ErrSink"} : BgWrite([n |-> n, err |-> e])

SpecWriter == Init /\ [][NextWriter]_vars

\* Write, lines 172-228, called by a second caller with the next l bytes, fewer
\* than the capacity, when the mutex is free: the calls that return under one
\* hold of the mutex (w.err set; a top-up that does not fill the buffer; the
\* buffer empty). A goroutine that this or a later start replaces in bg is
\* counted in bgStale and not run further.
OtherWrite(l) ==
  /\ MuFree(w_mu)
  /\ inPos + l <= MaxInput
  /\ Len(w_buf) = 0 \/ Len(w_buf) + l < Cap \/ w_err # "nil"
  /\ inPos' = inPos + l
  /\ IF ErrRecorded(w_err)
     THEN /\ o_ret' = [calls |-> Min(o_ret.calls + 1, 2), n |-> 0, err |-> w_err,
                       during |-> w_pc = "writeFlush"]
          /\ UNCHANGED <<w_buf, w_flushChan, w_timer, w_writeDone, bg, bgStale>>
     ELSE /\ o_ret' = [calls |-> Min(o_ret.calls + 1, 2), n |-> l, err |-> "nil",
                       during |-> w_pc = "writeFlush"]
          /\ w_buf' = w_buf \o Bytes(inPos, inPos + l)
          /\ IF Len(w_buf) > 0
             THEN UNCHANGED <<w_flushChan, w_timer, w_writeDone, bg, bgStale>>
             ELSE StartBackground
  /\ UNCHANGED <<w_err, w_mu, w_pc, done, w_p, w_n, sink, sinkFails, w_call, w_ret,
                 allErrNil, allFullN>>
  /\ UNCHANGED <<rvars, dvars, kvars, bvars>>

\* Write, lines 172-201, called by a second caller with the next Cap bytes when
\* the buffer is empty and no error is recorded: it takes the mutex and calls
\* the sink's Write with the whole input
OtherSyncCall ==
  /\ MuFree(w_mu)
  /\ w_err = "nil"
  /\ Len(w_buf) = 0
  /\ inPos + Cap <= MaxInput
  /\ inPos' = inPos + Cap
  /\ w_mu' = "other"
  /\ UNCHANGED <<w_buf, w_err, w_flushChan, w_timer, w_writeDone, bg, w_pc, done,
                 w_p, w_n, sink, sinkFails, w_call, w_ret, allErrNil, allFullN,
                 bgStale, o_ret>>
  /\ UNCHANGED <<rvars, dvars, kvars, bvars>>

\* lines 201-228 of that call: the sink's Write returns res; with no byte
\* written the loop calls it again, with all bytes written the call returns,
\* and otherwise the rest is buffered and a background flush started
OtherSyncReturn(res) ==
  /\ w_mu = "other"
  /\ res \in SinkResults(Cap)
  /\ sink' = Append(sink, Bytes(inPos - Cap, inPos))
  /\ sinkFails' = IF res.err # "nil" THEN sinkFails + 1 ELSE sinkFails
  /\ w_err' = IF WriteErrResult # "nil" THEN WriteErrResult ELSE res.err
  /\ IF WriteErrResult = "nil" /\ SyncLoopCond(Bytes(inPos - Cap + res.n, inPos))
     THEN UNCHANGED <<w_mu, w_buf, w_flushChan, w_timer, w_writeDone, bg, bgStale,
                      o_ret>>
     ELSE /\ w_mu' = "free"
          /\ o_ret' = [calls |-> Min(o_ret.calls + 1, 2), n |-> Cap, err |-> WriteErrResult,
                       during |-> w_pc = "writeFlush"]
          /\ IF WriteErrResult # "nil" \/ res.n = Cap
             THEN UNCHANGED <<w_buf, w_flushChan, w_timer, w_writeDone, bg, bgStale>>
             ELSE /\ w_buf' = Bytes(inPos - Cap + res.n, inPos)
                  /\ StartBackground
  /\ UNCHANGED <<w_pc, done, w_p, w_n, inPos, w_call, w_ret, allErrNil, allFullN>>
  /\ UNCHANGED <<rvars, dvars, kvars, bvars>>

\* the Writer with a second caller
NextWriter2 ==
  \/ NextWriter
  \/ \E l \in 1..(Cap - 1) : OtherWrite(l)
  \/ OtherSyncCall
  \/ \E n \in 0..Cap, e \in {"nil", "ErrSink"} : OtherSyncReturn([n |-> n, err |-> e])

\* the calls of the sink's Write that are in progress: the caller's at line 201,
\* backgroundWrite's at line 240 and the second caller's at line 201
SinkCalls ==
  (IF w_pc = "writeLoop" THEN 1 ELSE 0) + (IF bg = "writing" THEN 1 ELSE 0)
    + (IF w_mu = "other" THEN 1 ELSE 0)

SpecWriter2 == Init /\ [][NextWriter2]_vars

\* the same, with the progress the runtime gives the background goroutine: it
\* receives a signal that is in the flush channel, takes the mutex when it is
\* free, and the sink's Write returns
BgStep ==
  \/ BgLock
  \/ \E n \in 0..MaxInput, e \in {"nil", "ErrSink"} : BgWrite([n |-> n, err |-> e])
SpecWriterLive == SpecWriter /\ WF_vars(BgWake) /\ WF_vars(BgStep)

\* the same, and a caller waiting in flushLocked goes on once the completion
\* channel is closed and the mutex is free, lines 273-274
CallerWake ==
  \/ WriteFlushDone
  \/ FlushDone
SpecWriterWait == SpecWriterLive /\ WF_vars(CallerWake)

\* ----------------------------------------------------------- Writer claims

\* C2 as stated: when every Write has returned a nil error and a Flush has then
\* returned nil, the slices passed to the sink concatenate to exactly the bytes
\* given to Write, in order, and every Write returned n = len(p).
C2_WriterRoundTrip ==
  (w_pc = "idle" /\ w_call.op = "Flush" /\ w_ret.err = "nil" /\ allErrNil)
    => (Flatten(sink) = Bytes(0, inPos) /\ allFullN)

\* C4: every slice the Writer passes to the sink's Write holds at least 1 and at
\* most Cap bytes.
C4_WriterSizeBound ==
  \A i \in DOMAIN sink : 1 <= Len(sink[i]) /\ Len(sink[i]) <= Cap

\* a Write that filled the buffer waits in flushLocked and the background flush
\* has written the full buffer, after an earlier one-byte batch
C4_Witness ==
  /\ w_pc = "writeFlush" /\ done = "closed"
  /\ Len(sink) >= 2 /\ Len(sink[1]) = 1 /\ Len(sink[Len(sink)]) = Cap

\* C7 as stated: once a sink write has failed, every later Write (of a non-empty
\* input) and every later Flush returns that error.
C7_WriterStickyError ==
  (w_pc = "idle" /\ w_call.afterFail /\ (w_call.op = "Write" => w_call.len > 0))
    => w_ret.err = "ErrSink"

\* C8 as stated: a Write call in which a synchronous whole-capacity sink write
\* failed returns that error.
C8_SyncFailureReturned ==
  (w_pc = "idle" /\ w_call.op = "Write" /\ w_call.syncFailed) => w_ret.err = "ErrSink"

\* C13: a Write of L bytes that finds the buffer empty, with a sink that does
\* not fail, has passed the sink floor(L / Cap) slices of Cap bytes, the input in
\* order, when it returns (L, nil), and buffered the other L % Cap bytes; the
\* buffered bytes are passed as one more slice by the flush, and after a Flush
\* the buffer is empty.
C13_SizeDrivenWrite ==
  (w_pc = "idle" /\ w_call.lw.len > 0 /\ w_call.lw.bufAt = 0 /\ sinkFails = 0) =>
    LET L == w_call.lw.len
        p == Bytes(inPos - L, inPos)
        q == L \div Cap
        at == w_call.lw.sinkAt
        rest == SubSeq(p, q * Cap + 1, L)
    IN  /\ Len(sink) >= at + q
        /\ \A i \in 1..q : sink[at + i] = SubSeq(p, (i - 1) * Cap + 1, i * Cap)
        /\ \/ Len(sink) = at + q /\ w_buf = rest
           \/ rest # <<>> /\ Len(sink) = at + q + 1 /\ sink[at + q + 1] = rest
                          /\ w_buf = <<>>
        /\ w_call.op = "Flush" => w_buf = <<>>
        /\ (w_call.op = "Write" /\ w_call.len > 0) =>
             (w_ret.n = L /\ w_ret.err = "nil")

\* a Write longer than the capacity and not a multiple of it, then a Flush
C13_Witness ==
  /\ w_pc = "idle" /\ w_call.op = "Flush" /\ sinkFails = 0
  /\ w_call.lw.bufAt = 0 /\ w_call.lw.len > Cap /\ w_call.lw.len % Cap # 0
  /\ Len(sink) = w_call.lw.sinkAt + (w_call.lw.len \div Cap) + 1
  /\ w_buf = <<>>

\* C18: once the timer has fired, every byte in the buffer is eventually passed
\* to the sink, whether or not the caller makes another call.
C18_LatencyFlush ==
  \A i \in 1..MaxInput :
    (w_timer = "fired" /\ \E j \in DOMAIN w_buf : w_buf[j] = i)
      ~> (\E k \in DOMAIN sink : \E j \in DOMAIN sink[k] : sink[k][j] = i)

\* the last call was a Write that left less than a full buffer, and the
\* background flush has passed it to the sink
C18_Witness ==
  /\ w_pc = "idle" /\ w_call.op = "Write" /\ w_call.len > 0
  /\ w_call.lw.bufAt = 0 /\ w_call.len < Cap
  /\ w_buf = <<>> /\ Len(sink) = w_call.lw.sinkAt + 1
  /\ sink[Len(sink)] = Bytes(inPos - w_call.len, inPos)

\* C19 as stated: when Flush returns, the buffer is empty and the result is the
\* error if a sink write has failed and nil otherwise.
C19_FlushResult ==
  (w_pc = "idle" /\ w_call.op = "Flush") =>
    /\ w_buf = <<>>
    /\ w_ret.err = IF sinkFails > 0 THEN "ErrSink" ELSE "nil"

\* C20: a Flush that finds the buffer empty passes nothing to the sink, leaves
\* every field of the Writer as it was, and returns what the Flush before it
\* returned, or nil on a new Writer.
C20_FlushIdempotent ==
  (w_pc = "idle" /\ w_call.op = "Flush" /\ w_call.pre.fields[1] = <<>>) =>
    /\ sink = w_call.pre.sink
    /\ WriterFields = w_call.pre.fields
    /\ w_mu = "free" /\ bg = "none"
    /\ w_call.prev.op = "Flush" => w_ret.err = w_call.prev.err
    /\ w_call.prev.op = "none" => w_ret.err = "nil"

\* a Flush straight after a Flush that returned the error of a failed flush
C20_Witness ==
  /\ w_pc = "idle" /\ w_call.op = "Flush" /\ w_call.pre.fields[1] = <<>>
  /\ w_call.prev = [op |-> "Flush", err |-> "ErrSink"]
  /\ w_ret.err = "ErrSink"

\* C21 as stated: no Write of another caller runs between the start and the
\* end of a Write, and no two background flush goroutines are alive at once.
C21_WriteAtomic ==
  /\ ~o_ret.during
  /\ bgStale = 0

\* ------------------------------------------------------- retry operations

\* line 30: f's result ends the loop
SucceededNever(e) == FALSE
Succeeded(e) == e = "nil"

\* the select of lines 49-53, with a zero backoff: Do returns when ctx is Done
ZeroBackoffStops(c) == c = "done"

\* the cases of the select of lines 42-46 that can proceed, with timer t and
\* context c: Go chooses one of them
WaitCases(t, c) ==
  (IF t = "fired" THEN {"timer"} ELSE {}) \cup (IF c = "done" THEN {"ctx"} ELSE {})

\* Do is called with the context c, line 26
DoCall(c) ==
  /\ d_pc = "start"
  /\ d_ctx' = c
  /\ d_pc' = "callf"
  /\ UNCHANGED <<d_t, d_hist, d_ret>>
  /\ UNCHANGED <<rvars, wvars, kvars, bvars>>

\* one iteration of the loop, lines 29-41 and 47-54: f returns e, and after an
\* error strategy.Duration() returns b (0, or 1 for a positive duration)
CallF(e, b) ==
  /\ d_pc = "callf"
  /\ Len(d_hist) < MaxCalls
  /\ IF Succeeded(e)
     THEN /\ d_hist' = Append(d_hist, [res |-> e, backoff |-> -1,
                                       ctxDone |-> d_ctx = "done"])
          /\ d_ret' = [err |-> "nil", call |-> 0]
          /\ d_pc' = "returned"
          /\ UNCHANGED d_t
     ELSE /\ d_hist' = Append(d_hist, [res |-> e, backoff |-> b,
                                       ctxDone |-> d_ctx = "done"])
          /\ IF b > 0
             THEN /\ d_t' = "armed"
                  /\ d_pc' = "wait"
                  /\ UNCHANGED d_ret
             ELSE /\ UNCHANGED d_t
                  /\ IF ZeroBackoffStops(d_ctx)
                     THEN /\ d_ret' = [err |-> "err", call |-> Len(d_hist')]
                          /\ d_pc' = "returned"
                     ELSE /\ d_pc' = "callf"
                          /\ UNCHANGED d_ret
  /\ UNCHANGED d_ctx
  /\ UNCHANGED <<rvars, wvars, kvars, bvars>>

\* the select of lines 42-46 proceeds with the case which
DoWait(which) ==
  /\ d_pc = "wait"
  /\ which \in WaitCases(d_t, d_ctx)
  /\ IF which = "timer"
     THEN /\ d_t' = "drained"
          /\ d_pc' = "callf"
          /\ UNCHANGED d_ret
     ELSE /\ d_ret' = [err |-> "err", call |-> Len(d_hist)]
          /\ d_pc' = "returned"
          /\ UNCHANGED d_t
  /\ UNCHANGED <<d_ctx, d_hist>>
  /\ UNCHANGED <<rvars, wvars, kvars, bvars>>

\* the timer of lines 37 and 40 expires
DoTimerFire ==
  /\ d_t = "armed"
  /\ d_t' = "fired"
  /\ UNCHANGED <<d_pc, d_ctx, d_hist, d_ret>>
  /\ UNCHANGED <<rvars, wvars, kvars, bvars>>

\* the context given to Do is cancelled, by f or by anyone else
DoCtxCancel ==
  /\ d_ctx = "live"
  /\ d_pc # "returned"
  /\ d_ctx' = "done"
  /\ UNCHANGED <<d_pc, d_t, d_hist, d_ret>>
  /\ UNCHANGED <<rvars, wvars, kvars, bvars>>

NextDo ==
  \/ \E c \in {"background", "live", "done"} : DoCall(c)
  \/ \E e \in {"nil", "err"}, b \in {0, 1} : CallF(e, b)
  \/ \E which \in {"timer", "ctx"} : DoWait(which)
  \/ DoTimerFire
  \/ DoCtxCancel

SpecDo == Init /\ [][NextDo]_vars

\* ------------------------------------------------------------- retry claims

\* C22: when Do has returned it has called f at least once, also with a context
\* that was Done from the start; it returned nil exactly when a call to f
\* returned nil, and otherwise the error of the last call; a call to f that
\* returned nil is the last call made.
C22_DoResult ==
  /\ d_pc = "returned" =>
       /\ Len(d_hist) >= 1
       /\ (d_ret.err = "nil") <=> (\E i \in DOMAIN d_hist : d_hist[i].res = "nil")
       /\ d_ret.err # "nil" => d_ret = [err |-> "err", call |-> Len(d_hist)]
  /\ \A i \in DOMAIN d_hist : d_hist[i].res = "nil" => i = Len(d_hist)

\* f failed and then succeeded, with a context that was Done all along
C22_Witness ==
  /\ d_pc = "returned" /\ d_ret.err = "nil"
  /\ Len(d_hist) = 2 /\ d_hist[1].res = "err" /\ d_hist[1].backoff = 1
  /\ d_hist[1].ctxDone /\ d_hist[2].ctxDone

\* C23 as stated: a call to f that returned an error while the context was Done
\* is the last call to f, and Do returns its error, with a zero and with a
\* positive backoff.
C23_StopsOnCancel ==
  \A i \in DOMAIN d_hist :
    (d_hist[i].res = "err" /\ d_hist[i].ctxDone) =>
      /\ i = Len(d_hist)
      /\ d_pc = "returned" => d_ret = [err |-> "err", call |-> i]

\* ---------------------------------------------------- xcontext operations

\* lines 37-49: which of its three return statements KeepAlive takes, for a
\* parent of the kind kind whose Err() is perr
PathOf(kind, perr) ==
  IF kind = "background" THEN "withCancel"
  ELSE IF perr # "nil" THEN "withDeadline"
  ELSE "keepAlive"

\* the cases of the select of line 71 that can proceed, with the timer t and
\* the channel canceled closed or not: Go chooses one of them
OuterCasesNoWait(t, c) == {"timer"} \cup (IF c THEN {"canceled"} ELSE {})
OuterCases(t, c) ==
  (IF t = "fired" THEN {"timer"} ELSE {}) \cup (IF c THEN {"canceled"} ELSE {})

\* the cases of the select of line 74 that can proceed, with parent.Err() perr
InnerCasesCanceledOnly(perr, c) == IF c THEN {"canceled"} ELSE {}
InnerCases(perr, c) ==
  (IF perr # "nil" THEN {"parent"} ELSE {}) \cup (IF c THEN {"canceled"} ELSE {})

\* keepAlive.stop, lines 117-125, and the cancel of a context of package
\* context: the error is set and the Done channel closed under the mutex
Stop(e) ==
  /\ k_err' = e
  /\ k_done' = TRUE
  /\ k_closes' = Min(k_closes + 1, 2)

\* the caller makes the parent context
NewParent(kind) ==
  /\ k_pc = "start"
  /\ p_kind' = kind
  /\ k_pc' = "parent"
  /\ UNCHANGED <<p_err, k_path, k_pAtCall, k_elapsed, k_timer, k_gor, k_canceled,
                 k_done, k_err, k_closes, k_cancel, k_cancelCalls, k_cret>>
  /\ UNCHANGED <<rvars, wvars, dvars, bvars>>

\* the parent's cancel function is called
ParentCancel ==
  /\ p_kind \in {"cancel", "deadline"}
  /\ p_err = "nil"
  /\ p_err' = "Canceled"
  /\ UNCHANGED <<p_kind, k_pc, k_path, k_pAtCall, k_elapsed, k_timer, k_gor,
                 k_canceled, k_done, k_err, k_closes, k_cancel, k_cancelCalls,
                 k_cret>>
  /\ UNCHANGED <<rvars, wvars, dvars, bvars>>

\* the parent's deadline passes
ParentExpire ==
  /\ p_kind = "deadline"
  /\ p_err = "nil"
  /\ p_err' = "DeadlineExceeded"
  /\ UNCHANGED <<p_kind, k_pc, k_path, k_pAtCall, k_elapsed, k_timer, k_gor,
                 k_canceled, k_done, k_err, k_closes, k_cancel, k_cancelCalls,
                 k_cret>>
  /\ UNCHANGED <<rvars, wvars, dvars, bvars>>

\* KeepAlive(parent, d), lines 33-91
KeepAlive ==
  /\ k_pc = "parent"
  /\ k_pc' = "called"
  /\ k_path' = PathOf(p_kind, p_err)
  /\ k_pAtCall' = p_err
  /\ k_timer' = IF k_path' = "withCancel" THEN "none" ELSE "armed"
  /\ k_gor' = IF k_path' = "keepAlive" THEN "outer" ELSE "none"
  /\ UNCHANGED <<p_kind, p_err, k_elapsed, k_canceled, k_done, k_err, k_closes,
                 k_cancel, k_cancelCalls, k_cret>>
  /\ UNCHANGED <<rvars, wvars, dvars, bvars>>

\* the time d passes after the call
Elapse ==
  /\ k_pc = "called"
  /\ ~k_elapsed
  /\ k_elapsed' = TRUE
  /\ UNCHANGED <<p_kind, p_err, k_pc, k_path, k_pAtCall, k_timer, k_gor,
                 k_canceled, k_done, k_err, k_closes, k_cancel, k_cancelCalls,
                 k_cret>>
  /\ UNCHANGED <<rvars, wvars, dvars, bvars>>

\* the timer of line 54 expires: timer.C can be received from
KTimerFire ==
  /\ k_path = "keepAlive"
  /\ k_timer = "armed"
  /\ k_elapsed
  /\ k_timer' = "fired"
  /\ UNCHANGED <<p_kind, p_err, k_pc, k_path, k_pAtCall, k_elapsed, k_gor,
                 k_canceled, k_done, k_err, k_closes, k_cancel, k_cancelCalls,
                 k_cret>>
  /\ UNCHANGED <<rvars, wvars, dvars, bvars>>

\* line 47: the deadline of the context context.WithDeadline returned passes
KDeadlineFire ==
  /\ k_path = "withDeadline"
  /\ k_timer = "armed"
  /\ k_elapsed
  /\ k_timer' = "fired"
  /\ IF k_err = "nil"
     THEN Stop("DeadlineExceeded")
     ELSE UNCHANGED <<k_err, k_done, k_closes>>
  /\ UNCHANGED <<p_kind, p_err, k_pc, k_path, k_pAtCall, k_elapsed, k_gor,
                 k_canceled, k_cancel, k_cancelCalls, k_cret>>
  /\ UNCHANGED <<rvars, wvars, dvars, bvars>>

\* the goroutine's select of line 71 proceeds with the case which
KOuter(which) ==
  /\ k_gor = "outer"
  /\ which \in OuterCases(k_timer, k_canceled)
  /\ IF which = "timer"
     THEN /\ k_timer' = "drained"
          /\ k_gor' = "inner"
          /\ UNCHANGED <<k_err, k_done, k_closes>>
     ELSE /\ Stop("Canceled")
          /\ k_gor' = "exiting"
          /\ UNCHANGED k_timer
  /\ UNCHANGED <<p_kind, p_err, k_pc, k_path, k_pAtCall, k_elapsed, k_canceled,
                 k_cancel, k_cancelCalls, k_cret>>
  /\ UNCHANGED <<rvars, wvars, dvars, bvars>>

\* the goroutine's select of line 74 proceeds with the case which
KInner(which) ==
  /\ k_gor = "inner"
  /\ which \in InnerCases(p_err, k_canceled)
  /\ IF which = "parent" THEN Stop(p_err) ELSE Stop("Canceled")
  /\ k_gor' = "exiting"
  /\ UNCHANGED <<p_kind, p_err, k_pc, k_path, k_pAtCall, k_elapsed, k_timer,
                 k_canceled, k_cancel, k_cancelCalls, k_cret>>
  /\ UNCHANGED <<rvars, wvars, dvars, bvars>>

\* the goroutine's deferred calls, lines 68-69: timer.Stop(), close(cancelerDone)
KExit ==
  /\ k_gor = "exiting"
  /\ k_gor' = "done"
  /\ k_timer' = IF k_timer = "armed" THEN "stopped" ELSE k_timer
  /\ UNCHANGED <<p_kind, p_err, k_pc, k_path, k_pAtCall, k_elapsed, k_canceled,
                 k_done, k_err, k_closes, k_cancel, k_cancelCalls, k_cret>>
  /\ UNCHANGED <<rvars, wvars, dvars, bvars>>

\* the returned cancel function is called: lines 85-90 on the path of line 85
\* (the first call closes canceled and waits, a later one finds cancelOnce
\* done), the cancel function of package context on the other two
CancelCall ==
  /\ k_pc = "called"
  /\ k_cancel # "waiting"
  /\ k_cancelCalls < MaxCancel
  /\ k_cancelCalls' = k_cancelCalls + 1
  /\ k_cret' = [preDone |-> k_done]
  /\ IF k_path = "keepAlive"
     THEN /\ k_canceled' = TRUE
          /\ k_cancel' = IF k_cancelCalls = 0 THEN "waiting" ELSE "returned"
          /\ UNCHANGED <<k_err, k_done, k_closes, k_timer>>
     ELSE /\ k_cancel' = "returned"
          /\ IF k_err = "nil"
             THEN /\ Stop("Canceled")
                  /\ k_timer' = IF k_timer = "armed" THEN "stopped" ELSE k_timer
             ELSE UNCHANGED <<k_err, k_done, k_closes, k_timer>>
          /\ UNCHANGED k_canceled
  /\ UNCHANGED <<p_kind, p_err, k_pc, k_path, k_pAtCall, k_elapsed, k_gor>>
  /\ UNCHANGED <<rvars, wvars, dvars, bvars>>

\* line 88: cancelerDone is closed, cancel returns
CancelReturn ==
  /\ k_cancel = "waiting"
  /\ k_gor = "done"
  /\ k_cancel' = "returned"
  /\ UNCHANGED <<p_kind, p_err, k_pc, k_path, k_pAtCall, k_elapsed, k_timer,
                 k_gor, k_canceled, k_done, k_err, k_closes, k_cancelCalls,
                 k_cret>>
  /\ UNCHANGED <<rvars, wvars, dvars, bvars>>

\* what the goroutine of lines 67-84 does
KGorStep ==
  \/ \E which \in {"timer", "canceled"} : KOuter(which)
  \/ \E which \in {"parent", "canceled"} : KInner(which)
  \/ KExit

NextKeepAlive ==
  \/ \E kind \in {"background", "cancel", "deadline"} : NewParent(kind)
  \/ ParentCancel
  \/ ParentExpire
  \/ KeepAlive
  \/ Elapse
  \/ KTimerFire
  \/ KDeadlineFire
  \/ KGorStep
  \/ CancelCall
  \/ CancelReturn

SpecKeepAlive == Init /\ [][NextKeepAlive]_vars

\* the goroutine, once it can take a step, takes it, and the timers expire once
\* their time has come
SpecKeepAliveLive ==
  SpecKeepAlive /\ WF_vars(KGorStep) /\ WF_vars(KTimerFire) /\ WF_vars(KDeadlineFire)

\* --------------------------------------------------------- xcontext claims

\* C24: the context KeepAlive returned is not Done before d has elapsed unless
\* the returned cancel function has been called, whatever the parent is or does.
C24_KeptAlive ==
  k_done => (k_elapsed \/ k_cancelCalls > 0)

\* the parent was cancelled during the wait and the returned context is open
C24_Witness ==
  /\ k_path = "keepAlive" /\ p_err = "Canceled" /\ ~k_elapsed
  /\ k_cancelCalls = 0 /\ ~k_done /\ k_err = "nil"

\* C25 as stated: a call of cancel that found the returned context not Done has
\* left it, on return, Done with Err() context.Canceled.
C25_CancelPriority ==
  (k_cancel = "returned" /\ ~k_cret.preDone) =>
    /\ k_done
    /\ k_err = "Canceled"

\* C26: with a parent that can be cancelled and no call of cancel, once d has
\* elapsed and the parent is Done the returned context becomes Done; its Done
\* channel is closed once; Err() is the parent's Err() when the parent was
\* cancelled after the call and DeadlineExceeded when it was Done at the call;
\* and Err() is nil exactly while the Done channel is open.
C26_FollowsParent ==
  /\ [](k_done => k_closes = 1)
  /\ []((k_err = "nil") <=> ~k_done)
  /\ []((k_done /\ k_cancelCalls = 0 /\ p_kind # "background") =>
          k_err = IF k_pAtCall = "nil" THEN p_err ELSE "DeadlineExceeded")
  /\ ((k_pc = "called" /\ p_kind # "background" /\ k_elapsed /\ p_err # "nil")
        ~> (k_done \/ k_cancelCalls > 0))

\* the parent was cancelled after the call, d elapsed, and the returned context
\* is Done with the parent's error, without a call of cancel
C26_Witness ==
  /\ k_path = "keepAlive" /\ k_pAtCall = "nil" /\ p_err = "Canceled"
  /\ k_elapsed /\ k_cancelCalls = 0
  /\ k_done /\ k_err = "Canceled" /\ k_closes = 1

\* -------------------------------------------- Reader concurrency and errors

\* C27: of the reads Next has launched, at most one is running or has its result
\* waiting in r.read at any time: Next launches a read only when every earlier
\* one has ended and its result has been received.
C27_OneReadInFlight ==
  Len(gor) + Len(r_read) <= 1

\* a Next returned on its context with the read pending, and the next Next
\* waits for that same read, which is still running
C27_Witness ==
  /\ r_pc = "pend" /\ r_pendingRead /\ r_ret.via = "pendcancel"
  /\ Len(gor) = 1 /\ r_read = <<>>

\* C28: once the Reader has recorded an error of the source (EOF and the
\* no-progress error included) the error stays, and no goroutine that could
\* call the source's Read exists, during and after every later call; a Next
\* called after a Next that returned such an error returns at once, through the
\* return after the loop, no batch and the same error.
C28_TerminalError ==
  /\ [](r_err # "nil" => gor = <<>>)
  /\ [][r_err # "nil" => r_err' = r_err]_vars
  /\ []((r_ret.op = "Next" /\ call.prevErr \notin {"none", "nil", "ctxErr"}) =>
          /\ r_pc = "idle"
          /\ r_ret.via = "loop" /\ r_ret.batch = <<>>
          /\ r_ret.err = call.prevErr /\ r_err = call.prevErr)

\* Next returned the source's error, and returned it again to a call with a
\* context that is Done
C28_Witness ==
  /\ r_pc = "idle" /\ r_ret.op = "Next" /\ r_ret.err = "ErrSrc"
  /\ call.prevErr = "ErrSrc" /\ call.ctx = "done"

\* C29: a Next waiting in one of its selects with a context that is Done
\* returns, also when the source's Read never returns.
C29_CancelledNextReturns ==
  (r_pc \in {"pend", "select"} /\ ctx = "done") ~> (r_pc = "idle")

\* the context became Done during a Next, which has returned while the source's
\* first Read has still not returned
C29_Witness ==
  /\ r_pc = "idle" /\ r_ret.via = "cancel" /\ call.ctx = "live"
  /\ gor = <<0>> /\ readCalls = 0

\* C30: Next, waiting for the read left pending by an earlier call, with a
\* context that is Done and no result in r.read, returns no batch and the
\* context's error, starts no goroutine, and leaves r.pendingRead (set),
\* r.nread, r.buf, r.err and r.read as they are; after such a return exactly one
\* read is outstanding for the next Next or Finish to receive.
C30_PendingCancelFrame ==
  /\ [][(r_pc = "pend" /\ ctx = "done" /\ r_read = <<>> /\ r_pc' = "idle") =>
          /\ r_ret' = [op |-> "Next", via |-> "pendcancel", batch |-> <<>>,
                       err |-> "ctxErr"]
          /\ gor' = gor /\ r_read' = r_read
          /\ r_pendingRead /\ r_pendingRead' = r_pendingRead
          /\ r_nread' = r_nread /\ r_buf' = r_buf /\ r_err' = r_err
          /\ out' = out]_vars
  /\ []((r_pc = "idle" /\ r_ret.via = "pendcancel") =>
          (r_pendingRead /\ Len(gor) + Len(r_read) = 1))

\* Next had returned a batch of one byte on its timer; the next Next waited for
\* the pending read, its context became Done, and it returned
C30_Witness ==
  /\ r_pc = "idle" /\ r_ret.via = "pendcancel" /\ call.ctx = "live"
  /\ r_pendingRead /\ r_nread = 1 /\ gor = <<0>> /\ timedOut

\* ------------------------------------------- Writer invariants and frames

\* C31: with one caller, whenever the mutex is free a backgroundWrite goroutine
\* exists exactly when the buffer is not empty, its flush channel, timer and
\* completion channel are set exactly then, and no goroutine started earlier is
\* still alive beside it.
C31_BackgroundIffBuffered ==
  /\ w_mu = "free" =>
       /\ (bg # "none") <=> (Len(w_buf) > 0)
       /\ (bg # "none") <=> (w_flushChan # "nil")
       /\ (bg # "none") <=> (w_timer # "nil")
       /\ (bg # "none") <=> (w_writeDone = "open")
  /\ bgStale = 0

\* the sink has been written to and the bytes that follow are buffered, their
\* goroutine waiting for the timer
C31_Witness ==
  /\ w_mu = "free" /\ w_pc = "idle" /\ Len(sink) >= 1
  /\ Len(w_buf) = 1 /\ bg = "waitFlush" /\ w_timer = "armed"

\* C32: when the caller is not inside a call the buffer holds fewer bytes than
\* the capacity; a Write that waits for a flush has handed over a full buffer,
\* and the buffer is empty when the flush is done and Write goes on.
C32_BufferBelowCap ==
  /\ w_pc = "idle" => Len(w_buf) < Cap
  /\ (w_pc = "writeFlush" /\ done = "open") => Len(w_buf) = Cap
  /\ (w_pc = "writeFlush" /\ done = "closed") => w_buf = <<>>
  /\ w_pc = "writeLoop" => w_buf = <<>>

\* a Write of two bytes found one byte buffered: it topped the buffer up, had it
\* flushed, and left its last byte buffered
C32_Witness ==
  /\ w_pc = "idle" /\ w_ret = [op |-> "Write", n |-> 2, err |-> "nil"]
  /\ w_call.lw = [len |-> 2, bufAt |-> Cap - 1, sinkAt |-> Len(sink) - 1]
  /\ Len(w_buf) = 2 - 1

C34_OneFlushPerBatch ==
  /\ [][((w_buf = <<>> /\ w_buf' # <<>>) <=> (bg = "none" /\ bg' = "waitFlush"))
        /\ ((w_timer # "armed" /\ w_timer' = "armed") <=> (w_buf = <<>> /\ w_buf' # <<>>))
        /\ ((w_buf = <<>> /\ w_buf' # <<>>) =>
              (w_flushChan' = "empty" /\ w_writeDone' = "open"))]_vars
  /\ [][(w_buf # <<>> /\ Len(w_buf') > Len(w_buf)) =>
          /\ w_timer' = w_timer /\ bg' = bg /\ w_writeDone' = w_writeDone
          /\ bgStale' = bgStale /\ sink' = sink
          /\ SubSeq(w_buf', 1, Len(w_buf)) = w_buf]_vars
  /\ [][(bg # "none" /\ bg' = "none") =>
          /\ sink' = Append(sink, w_buf)
          /\ w_buf' = <<>>
          /\ w_flushChan' = "nil" /\ w_timer' = "nil" /\ w_writeDone' = "nil"
          /\ done = "open" => done' = "closed"]_vars

\* a batch of two Writes, the second a top-up that did not fill the buffer, has
\* been passed to the sink in one Write after its timer fired
C34_Witness ==
  /\ w_pc = "idle" /\ w_call.op = "Write" /\ w_call.lw.bufAt = 1 /\ w_call.len = 1
  /\ bg = "none" /\ w_buf = <<>>
  /\ Len(sink) = w_call.lw.sinkAt + 1
  /\ sink[Len(sink)] = Bytes(inPos - 2, inPos)

\* C35: a Write of at least one byte that finds an error recorded returns 0 and
\* that error in the same step, passes nothing to the sink, and leaves the
\* buffer, the error, the flush channel, the timer, the completion channel and
\* the backgroundWrite goroutine as they are.
C35_RejectedWriteFrame ==
  [][(inPos' > inPos /\ w_err # "nil") =>
       /\ w_pc' = "idle"
       /\ w_ret' = [op |-> "Write", n |-> 0, err |-> w_err]
       /\ sink' = sink
       /\ w_buf' = w_buf /\ w_err' = w_err
       /\ w_flushChan' = w_flushChan /\ w_timer' = w_timer
       /\ w_writeDone' = w_writeDone /\ bg' = bg /\ bgStale' = bgStale]_vars

\* a Write was rejected with the recorded error while bytes were buffered and
\* their goroutine was waiting: they are as the Write found them
C35_Witness ==
  /\ w_pc = "idle" /\ w_call.op = "Write" /\ w_call.len > 0
  /\ w_call.pre.fields[2] = "ErrSink" /\ w_call.pre.fields[1] # <<>>
  /\ w_ret = [op |-> "Write", n |-> 0, err |-> "ErrSink"]
  /\ WriterFields = w_call.pre.fields /\ sink = w_call.pre.sink
  /\ bg = "waitFlush"

\* C36 as stated: once a sink Write of a whole-capacity chunk has returned an
\* error inside a Write, that Write has returned, with nothing buffered and no
\* background flush started.
C36_ReturnsOnSyncFailure ==
  (w_call.op = "Write" /\ w_call.syncFailed) =>
    /\ w_pc = "idle"
    /\ w_buf = <<>>
    /\ bg = "none"

\* C37: the step in which the background flush's sink Write fails records the
\* error, empties the buffer and closes the completion channel a caller waits
\* on; a Flush or Write waiting in flushLocked gets the completion signal, and
\* with the error recorded its next step returns that error and passes nothing
\* to the sink; the error stays recorded while the caller is idle.
C37_BackgroundFailure ==
  /\ [][(bg = "writing" /\ bg' = "none" /\ sinkFails' > sinkFails) =>
          /\ w_err' = "ErrSink"
          /\ w_buf' = <<>>
          /\ w_writeDone' = "nil"
          /\ done = "open" => done' = "closed"]_vars
  /\ [][(w_pc \in {"writeFlush", "flushWait"} /\ w_pc' # w_pc /\ w_err = "ErrSink") =>
          /\ w_pc' = "idle"
          /\ w_ret' = [op |-> w_call.op, n |-> w_n, err |-> "ErrSink"]
          /\ sink' = sink /\ w_buf' = w_buf /\ w_err' = w_err]_vars
  /\ [][(w_pc = "idle" /\ w_err = "ErrSink" /\ bg = "none") => w_err' = w_err]_vars
  /\ ((w_pc \in {"writeFlush", "flushWait"}) ~> (done = "closed"))
  /\ ((w_pc \in {"writeFlush", "flushWait"} /\ done = "closed" /\ w_err = "ErrSink")
        ~> (w_pc = "idle" /\ w_ret.err = "ErrSink"))

\* a Write that filled the buffer waited for the background flush, whose sink
\* Write failed, and returned the error with the bytes it had copied
C37_Witness ==
  /\ w_pc = "idle" /\ w_call.op = "Write" /\ w_call.lw.bufAt > 0
  /\ w_call.len > Cap - w_call.lw.bufAt
  /\ w_ret = [op |-> "Write", n |-> Cap - w_call.lw.bufAt, err |-> "ErrSink"]
  /\ w_buf = <<>> /\ bg = "none" /\ sinkFails = 1 /\ Len(sink) = 1

\* ------------------------------------------------------ Batcher operations

\* what Next returns when its context is Done in the select, lines 245-247, with
\* nread = nr: the batch b.buf[:nread:nread], of nr bytes, and a nil error
BCancelResult(nr) == [n |-> nr, err |-> "nil"]

\* a call returns a batch of n bytes and the error e: the caller is idle again,
\* Next's deferred timer.Stop has run
BReturn(op, n, e) ==
  /\ b_ret' = [op |-> op, n |-> n, err |-> e]
  /\ b_pc' = "idle"
  /\ b_timeout' = "nil"
  /\ b_ctx' = "background"

\* the for loop of Next from its condition (line 220) to the select (line 238),
\* or to the return after the loop (lines 250-253), with nread = nr and the
\* call's context c
BLoopTop(nr, c) ==
  /\ b_nread' = nr
  /\ IF nr < Size /\ b_err = "nil"
     THEN /\ b_timeout' = IF b_timeout = "nil" /\ nr > 0 THEN "armed" ELSE b_timeout
          /\ b_gor' = Append(b_gor, 0)
          /\ b_pc' = "select"
          /\ b_ctx' = c
          /\ UNCHANGED b_ret
     ELSE /\ BReturn("Next", nr, IF nr = 0 THEN b_err ELSE "nil")
          /\ UNCHANGED b_gor

\* Next, lines 205-217: entry, up to the first point where it blocks
BNextCall(c) ==
  /\ b_pc = "idle"
  /\ b_finishCalls = 0
  /\ IF b_pendingRead
     THEN /\ b_pc' = "pend"
          /\ b_ctx' = c
          /\ UNCHANGED <<b_nread, b_timeout, b_gor, b_ret>>
     ELSE BLoopTop(0, c)
  /\ UNCHANGED <<b_r, b_err, b_read, b_pendingRead, b_srcPos, b_finishCalls>>
  /\ UNCHANGED <<rvars, wvars, dvars, kvars>>

\* lines 209-211: the leftover read's result arrives
BPendRecv ==
  /\ b_pc = "pend"
  /\ b_read # <<>>
  /\ b_read' = Tail(b_read)
  /\ b_pendingRead' = FALSE
  /\ BLoopTop(Head(b_read), b_ctx)
  /\ UNCHANGED <<b_r, b_err, b_srcPos, b_finishCalls>>
  /\ UNCHANGED <<rvars, wvars, dvars, kvars>>

\* lines 212-213
BPendCancel ==
  /\ b_pc = "pend"
  /\ b_ctx = "done"
  /\ BReturn("Next", 0, "ctxErr")
  /\ UNCHANGED <<b_r, b_nread, b_err, b_read, b_pendingRead, b_gor, b_srcPos,
                 b_finishCalls>>
  /\ UNCHANGED <<rvars, wvars, dvars, kvars>>

\* lines 239-240
BSelRecv ==
  /\ b_pc = "select"
  /\ b_read # <<>>
  /\ b_read' = Tail(b_read)
  /\ BLoopTop(b_nread + Head(b_read), b_ctx)
  /\ UNCHANGED <<b_r, b_err, b_pendingRead, b_srcPos, b_finishCalls>>
  /\ UNCHANGED <<rvars, wvars, dvars, kvars>>

\* lines 241-244
BSelTimeout ==
  /\ b_pc = "select"
  /\ b_timeout = "fired"
  /\ b_pendingRead' = TRUE
  /\ BReturn("Next", b_nread, "nil")
  /\ UNCHANGED <<b_r, b_nread, b_err, b_read, b_gor, b_srcPos, b_finishCalls>>
  /\ UNCHANGED <<rvars, wvars, dvars, kvars>>

\* lines 245-247
BSelCancel ==
  /\ b_pc = "select"
  /\ b_ctx = "done"
  /\ b_pendingRead' = TRUE
  /\ BReturn("Next", BCancelResult(b_nread).n, BCancelResult(b_nread).err)
  /\ UNCHANGED <<b_r, b_nread, b_err, b_read, b_gor, b_srcPos, b_finishCalls>>
  /\ UNCHANGED <<rvars, wvars, dvars, kvars>>

\* the timer of line 222 expires
BTimerFire ==
  /\ b_timeout = "armed"
  /\ b_timeout' = "fired"
  /\ UNCHANGED <<b_r, b_nread, b_err, b_read, b_pendingRead, b_pc, b_ctx, b_gor,
                 b_srcPos, b_finishCalls, b_ret>>
  /\ UNCHANGED <<rvars, wvars, dvars, kvars>>

\* the context given to the running Next becomes Done
BCtxCancel ==
  /\ b_ctx = "live"
  /\ b_ctx' = "done"
  /\ UNCHANGED <<b_r, b_nread, b_err, b_read, b_pendingRead, b_pc, b_timeout,
                 b_gor, b_srcPos, b_finishCalls, b_ret>>
  /\ UNCHANGED <<rvars, wvars, dvars, kvars>>

\* one iteration of the goroutine's loop, lines 228-236: goroutine k calls the
\* source's Read on b.buf[b.nread:], which returns (n, e); a result is sent on
\* b.read
BGoRead(k, n, e) ==
  /\ k \in DOMAIN b_gor
  /\ n \in 0..Min(Size - b_nread, MaxStream - b_srcPos)
  /\ b_srcPos' = b_srcPos + n
  /\ IF n > 0 \/ e # "nil"
     THEN /\ Len(b_read) < 1
          /\ b_err' = e
          /\ b_read' = Append(b_read, n)
          /\ b_gor' = SubSeq(b_gor, 1, k - 1) \o SubSeq(b_gor, k + 1, Len(b_gor))
     ELSE IF b_gor[k] + 1 < NoProgressTries
          THEN /\ b_err' = e
               /\ b_gor' = [b_gor EXCEPT ![k] = b_gor[k] + 1]
               /\ UNCHANGED b_read
          ELSE /\ Len(b_read) < 1
               /\ b_err' = "ErrNoProgress"
               /\ b_read' = Append(b_read, 0)
               /\ b_gor' = SubSeq(b_gor, 1, k - 1) \o SubSeq(b_gor, k + 1, Len(b_gor))
  /\ UNCHANGED <<b_r, b_nread, b_pendingRead, b_pc, b_timeout, b_ctx,
                 b_finishCalls, b_ret>>
  /\ UNCHANGED <<rvars, wvars, dvars, kvars>>

\* Finish, lines 258-265: closing the source returns cerr
BFinishCall(cerr) ==
  /\ b_pc = "idle"
  /\ b_finishCalls < MaxFinish
  /\ b_finishCalls' = b_finishCalls + 1
  /\ IF ~b_r
     THEN BReturn("Finish", 0, "ErrFinishTwice")
     ELSE IF ~b_pendingRead
          THEN BReturn("Finish", 0, cerr)
          ELSE /\ b_pc' = "finish"
               /\ b_ret' = [b_ret EXCEPT !.err = cerr]
               /\ UNCHANGED <<b_timeout, b_ctx>>
  /\ UNCHANGED <<b_r, b_nread, b_err, b_read, b_pendingRead, b_gor, b_srcPos>>
  /\ UNCHANGED <<rvars, wvars, dvars, kvars>>

\* lines 266-269
BFinishRecv ==
  /\ b_pc = "finish"
  /\ b_read # <<>>
  /\ b_read' = Tail(b_read)
  /\ b_pendingRead' = FALSE
  /\ b_r' = FALSE
  /\ BReturn("Finish", Head(b_read), b_ret.err)
  /\ UNCHANGED <<b_nread, b_err, b_gor, b_srcPos, b_finishCalls>>
  /\ UNCHANGED <<rvars, wvars, dvars, kvars>>

NextBatcher ==
  \/ \E c \in {"background", "live", "done"} : BNextCall(c)
  \/ BPendRecv
  \/ BPendCancel
  \/ BSelRecv
  \/ BSelTimeout
  \/ BSelCancel
  \/ BTimerFire
  \/ BCtxCancel
  \/ \E k \in 1..Len(b_gor), n \in 0..Size, e \in {"nil", "EOF", "ErrSrc"} : BGoRead(k, n, e)
  \/ \E cerr \in {"nil", "ErrClose"} : BFinishCall(cerr)
  \/ BFinishRecv

SpecBatcher == Init /\ [][NextBatcher]_vars

\* ----------------------------------------------------------- Batcher claim

\* C38 as stated: Batcher.Next never returns an empty batch with a nil error.
C38_BatcherNeverEmptyNil ==
  b_ret.op = "Next" => ~(b_ret.n = 0 /\ b_ret.err = "nil")

====
